---- MODULE Spec2Model ----
(***************************************************************************)
(* XsdLibrary: a library of XSD documents bucketed by namespace, with the  *)
(* lookups that walk them (element / type lookup, restriction chains,      *)
(* facet collection, instance-node-to-definition mapping).                 *)
(*                                                                         *)
(* Documents and nodes are DOM values.  A node is a record                 *)
(*   [id, namespaceURI, localName, name, type, base, fixed, children]      *)
(* where name / fixed are attribute strings (Null when absent), type and   *)
(* base are the qualified names the attributes of those names resolve to  *)
(* (NULL when absent) and children is the sequence of child elements.      *)
(***************************************************************************)
EXTENDS Integers, Sequences, FiniteSets, TLC

VARIABLES items, pc, call, local, ret, log

vars == <<items, pc, call, local, ret, log>>

\* ---------------------------------------------------------------- values

\* JavaScript null / undefined in a slot that otherwise holds a node or a
\* qualified name, and in a slot that otherwise holds a string.
NULL == [null |-> TRUE]
Null == "<null>"
Undefined == "<undefined>"
\* How a call ended: with a node (or null), a string, an array or undefined
\* as its value, or by throwing.
Return(v) == [value |-> v]
ReturnString(s) == [string |-> s]
ReturnArray(a) == [array |-> a]
ReturnUndefined == [undefined |-> TRUE]
Throw(e) == [throws |-> e]
\* The outcome of a lookup in which the engine raises a TypeError.
TypeError == Throw("TypeError")
\* The errors the design names for a rejected registration and a malformed chain.
InvalidSchemaError == Throw("InvalidSchemaError")
MalformedChainError == Throw("MalformedChainError")
\* The outcome of an expression that either yields a node (or null) or throws.
Outcome(r) == IF r = TypeError THEN r ELSE Return(r)

\* xsd.xs and xsd.xsi, the two namespace constants of the xsd collaborator.
XS == "http://www.w3.org/2001/XMLSchema"
XSI == "http://www.w3.org/2001/XMLSchema-instance"
NsA == "urn:a"

\* JavaScript truthiness of a string-or-absent value (name || ...).
Truthy(s) == s # Undefined /\ s # Null /\ s # ""

\* Property-key coercion of items[ns]: null becomes the key "null".
ToKey(s) == IF s = Null THEN "null" ELSE IF s = Undefined THEN "undefined" ELSE s

QName(ns, n) == [namespaceURI |-> ns, name |-> n]

mk(id, localName, name, type, base, fixed, children) ==
  [id |-> id, namespaceURI |-> XS, localName |-> localName, name |-> name,
   type |-> type, base |-> base, fixed |-> fixed, children |-> children]

Element(id, name, type, children) == mk(id, "element", name, type, NULL, Null, children)
ComplexType(id, name, children) == mk(id, "complexType", name, NULL, NULL, Null, children)
Facet(id, kind, fixed) == mk(id, kind, Null, NULL, NULL, fixed, <<>>)
Restriction(id, base, facets) == mk(id, "restriction", Null, NULL, base, Null, facets)
SimpleType(id, name, children) == mk(id, "simpleType", name, NULL, NULL, Null, children)

Document(id, targetNamespace, children) ==
  [id |-> id, targetNamespace |-> targetNamespace, children |-> children]

\* ------------------------------------------------------------- documents

\* The bundled base-type schema: primitives without a restriction, and one
\* derived built-in (integer restricts decimal, fractionDigits fixed).
basetypesXsd ==
  Document("basetypes", XS, <<
    SimpleType("xs.string", "string", <<>>),
    SimpleType("xs.decimal", "decimal", <<>>),
    SimpleType("xs.integer", "integer", <<
      Restriction("xs.integer.r", QName(XS, "decimal"),
                  <<Facet("xs.integer.fd", "fractionDigits", "true")>>)>>)
  >>)

\* A user schema for urn:a.
schemaA1 ==
  Document("a1", NsA, <<
    Element("a1.root", "root", QName(NsA, "RootType"), <<>>),
    ComplexType("a1.RootType", "RootType",
      <<Element("a1.RootType.mid", "mid", QName(NsA, "MidType"), <<>>)>>),
    ComplexType("a1.MidType", "MidType",
      <<Element("a1.MidType.leaf", "leaf", QName(XS, "string"), <<>>)>>),
    ComplexType("a1.AltMid", "AltMid",
      <<Element("a1.AltMid.leaf", "leaf", QName(XS, "decimal"), <<>>)>>),
    ComplexType("a1.T", "T", <<>>),
    SimpleType("a1.A", "A", <<
      Restriction("a1.A.r", QName(NsA, "B"), <<
        Facet("a1.A.td", "totalDigits", "true"),
        Facet("a1.A.ml", "maxLength", Null),
        Facet("a1.A.e1", "enumeration", Null),
        Facet("a1.A.e2", "enumeration", Null)>>)>>),
    SimpleType("a1.B", "B", <<
      Restriction("a1.B.r", QName(XS, "string"), <<
        Facet("a1.B.td", "totalDigits", Null),
        Facet("a1.B.ml", "maxLength", "false"),
        Facet("a1.B.e1", "enumeration", Null),
        Facet("a1.B.pt", "pattern", Null)>>)>>),
    SimpleType("a1.F", "F", <<
      Restriction("a1.F.r", QName(NsA, "G"), <<
        Facet("a1.F.td", "totalDigits", Null),
        Facet("a1.F.ml", "maxLength", Null)>>)>>),
    SimpleType("a1.G", "G", <<
      Restriction("a1.G.r", QName(XS, "integer"), <<
        Facet("a1.G.td", "totalDigits", "true"),
        Facet("a1.G.ml", "maxLength", "true"),
        Facet("a1.G.as", "assertion", Null)>>)>>)
  >>)

\* A second user schema for urn:a: it declares root, T and B again (other
\* definitions), and a cyclic restriction chain X -> Y -> X.
schemaA2 ==
  Document("a2", NsA, <<
    Element("a2.root", "root", NULL, <<
      ComplexType("a2.root.ct", Null,
        <<Element("a2.root.mid", "mid", NULL, <<
            ComplexType("a2.mid.ct", Null,
              <<Element("a2.mid.leaf", "leaf", QName(XS, "string"), <<>>)>>)>>)>>)>>),
    ComplexType("a2.T", "T", <<>>),
    SimpleType("a2.B", "B", <<
      Restriction("a2.B.r", QName(XS, "decimal"),
                  <<Facet("a2.B.e1", "enumeration", Null)>>)>>),
    SimpleType("a2.X", "X", <<
      Restriction("a2.X.r", QName(NsA, "Y"),
                  <<Facet("a2.X.ml", "maxLength", Null)>>)>>),
    SimpleType("a2.Y", "Y", <<
      Restriction("a2.Y.r", QName(NsA, "X"),
                  <<Facet("a2.Y.ml", "maxLength", Null),
                    Facet("a2.Y.e1", "enumeration", Null)>>)>>)
  >>)

\* A schema that declares no targetNamespace.
schemaNoNs ==
  Document("nons", Null, <<
    Element("nons.root", "root", NULL, <<>>),
    ComplexType("nons.T", "T", <<>>)
  >>)

UserDocs == {schemaA1, schemaA2, schemaNoNs}
AllDocs == {basetypesXsd} \cup UserDocs

\* The library holds documents by reference: a reference is the document's
\* id, and Doc follows it.
Ref(def) == def.id
Doc(ref) == CHOOSE d \in AllDocs : d.id = ref

\* The documents the library is constructed with (the defs of init).
InitialDefs == {<<>>, <<schemaA1>>, <<schemaNoNs>>}

\* The namespace argument of addItem (Undefined: not given).
NsArgs == {Undefined, XS, NsA}

\* How many user documents a behaviour registers in all (at construction
\* and through addItem).
MaxDocs == 2

\* ----------------------------------------------- collaborators (xsd, Library)

\* The first of children, from index i on, that is an XML Schema element with
\* a local name in localNames and the name attribute name (any, when name is
\* Undefined); NULL when there is none.
RECURSIVE find(_, _, _, _)
find(children, localNames, name, i) ==
  IF i > Len(children) THEN NULL
  ELSE IF /\ children[i].namespaceURI = XS
          /\ children[i].localName \in localNames
          /\ (name = Undefined \/ children[i].name = name)
       THEN children[i]
       ELSE find(children, localNames, name, i + 1)

\* Library.exists(name) over the items object.
exists(its, ns) == ToKey(ns) \in DOMAIN its
\* Library.getItem(name) as every caller reads it: this.getItem(ns) || [].
getItem(its, ns) == IF exists(its, ns) THEN its[ToKey(ns)] ELSE <<>>

\* def.documentElement.getAttributeNS(null, 'targetNamespace'): null when
\* the schema element has no such attribute.
targetNamespaceOf(def) == def.targetNamespace

\* xsd.findElement(node, name): the first child element declaration of a
\* document or of a type definition with that name.
xsd_findElement(node, name) == find(node.children, {"element"}, name, 1)

IsTypeNamed(c, name) ==
  c.localName \in {"complexType", "simpleType"} /\ c.name = name

\* xsd.findTypeByName(doc, name) as part_001 consumes it: every matching
\* type definition of the document.
xsd_findTypeByName_list(doc, name) ==
  SelectSeq(doc.children, LAMBDA c : IsTypeNamed(c, name))

\* xsd.findTypeByName(doc, name) as part_000 consumes it: the matching type
\* definition or null.
xsd_findTypeByName(doc, name) ==
  find(doc.children, {"complexType", "simpleType"}, name, 1)

\* ------------------------------------------------------------ XsdLibrary

\* addItem that skips a document its bucket already holds.
addItem_dedup(its, def, name) ==
  LET ns == IF Truthy(name) THEN name ELSE targetNamespaceOf(def)
      xsdCollection == IF exists(its, ns) THEN getItem(its, ns) ELSE <<>>
      pushed == IF \E i \in 1..Len(xsdCollection) : xsdCollection[i] = Ref(def)
                THEN xsdCollection ELSE Append(xsdCollection, Ref(def))
      key == ToKey(ns)
  IN [k \in DOMAIN its \cup {key} |-> IF k = key THEN pushed ELSE its[k]]

\* addItem that puts the document at the front of its bucket (unshift).
addItem_unshift(its, def, name) ==
  LET ns == IF Truthy(name) THEN name ELSE targetNamespaceOf(def)
      xsdCollection == IF exists(its, ns) THEN getItem(its, ns) ELSE <<>>
      pushed == <<Ref(def)>> \o xsdCollection
      key == ToKey(ns)
  IN [k \in DOMAIN its \cup {key} |-> IF k = key THEN pushed ELSE its[k]]

\* addItem(def, name): the items object after the call.
addItem(its, def, name) ==
  LET ns == IF Truthy(name) THEN name ELSE targetNamespaceOf(def)
      xsdCollection == IF exists(its, ns) THEN getItem(its, ns) ELSE <<>>
      pushed == Append(xsdCollection, Ref(def))
      key == ToKey(ns)
  IN [k \in DOMAIN its \cup {key} |-> IF k = key THEN pushed ELSE its[k]]

\* Library.init(items): an empty items object, then addItem of each item.
RECURSIVE Library_init(_, _)
Library_init(its, defs) ==
  IF defs = <<>> THEN its
  ELSE Library_init(addItem(its, Head(defs), Undefined), Tail(defs))

\* init(defs): the base types first, then the given documents.
initDefs(defs) == <<basetypesXsd>> \o defs
init(defs) == Library_init(<<>>, initDefs(defs))

\* The for loop of findElement from index i on (1-based).
RECURSIVE findElement_loop(_, _, _)
findElement_loop(xsds, name, i) ==
  IF i > Len(xsds) THEN NULL
  ELSE LET element == xsd_findElement(Doc(xsds[i]), name)
       IN IF element # NULL THEN element ELSE findElement_loop(xsds, name, i + 1)

\* findElement that looks in the first document of the bucket only.
findElement_firstOnly(its, namespace, name) ==
  LET xsds == getItem(its, namespace)
  IN IF Len(xsds) = 0 THEN NULL ELSE xsd_findElement(Doc(xsds[1]), name)

\* findElement(namespace, name)
findElement(its, namespace, name) ==
  findElement_loop(getItem(its, namespace), name, 1)

\* The for loop of findTypeByName (part_000) from index i on.
RECURSIVE findTypeByName_loop(_, _, _)
findTypeByName_loop(xsds, name, i) ==
  IF i > Len(xsds) THEN NULL
  ELSE LET xsdNode == xsd_findTypeByName(Doc(xsds[i]), name)
       IN IF xsdNode # NULL THEN xsdNode ELSE findTypeByName_loop(xsds, name, i + 1)

\* findTypeByName whose loop runs from the last document to the first.
RECURSIVE findTypeByName_backwards_loop(_, _, _)
findTypeByName_backwards_loop(xsds, name, i) ==
  IF i < 1 THEN NULL
  ELSE LET xsdNode == xsd_findTypeByName(Doc(xsds[i]), name)
       IN IF xsdNode # NULL THEN xsdNode
          ELSE findTypeByName_backwards_loop(xsds, name, i - 1)

findTypeByName_backwards(its, namespace, name) ==
  findTypeByName_backwards_loop(getItem(its, namespace), name,
                                Len(getItem(its, namespace)))

\* findTypeByName(namespace, name), part_000
findTypeByName(its, namespace, name) ==
  findTypeByName_loop(getItem(its, namespace), name, 1)

\* The for loop of findTypeByName (part_001) from index i on.
RECURSIVE findTypeByName_1_loop(_, _, _)
findTypeByName_1_loop(xsds, name, i) ==
  IF i > Len(xsds) THEN NULL
  ELSE LET xsdNodes == xsd_findTypeByName_list(Doc(xsds[i]), name)
       IN IF Len(xsdNodes) > 0 THEN xsdNodes[1]
          ELSE findTypeByName_1_loop(xsds, name, i + 1)

\* findTypeByName(namespace, name), part_001
findTypeByName_1(its, namespace, name) ==
  findTypeByName_1_loop(getItem(its, namespace), name, 1)

\* xsd.getTypeFromNodeAttr(node, typeAttr, typeAttrNS): the qualified name
\* the attribute resolves to, null when the attribute is absent.
xsd_getTypeFromNodeAttr(node, typeAttr, typeAttrNS) ==
  IF typeAttrNS = XSI THEN node.xsiType
  ELSE IF typeAttr = "type" THEN node.type
  ELSE node.base

\* findTypeDefinitionFromNodeAttr(node, typeAttr, typeAttrNS)
findTypeDefinitionFromNodeAttr(its, node, typeAttr, typeAttrNS) ==
  LET type == xsd_getTypeFromNodeAttr(node, typeAttr, typeAttrNS)
  IN IF type # NULL THEN findTypeByName(its, type.namespaceURI, type.name) ELSE NULL

\* findRestrictedType(node)
findRestrictedType(its, node) ==
  LET element == find(node.children, {"restriction"}, Undefined, 1)
  IN IF element # NULL
     THEN findTypeDefinitionFromNodeAttr(its, element, "base", Undefined)
     ELSE NULL

\* One pass of the do-while loop of findBaseTypeFor over its locals.
findBaseTypeFor_iteration(its, node, l) ==
  LET curr == IF l.base # NULL THEN l.base ELSE node
  IN [curr |-> curr, base |-> findRestrictedType(its, curr)]

\* findBaseTypeFor that returns the name of the node it was given.
findBaseTypeFor_return_node(node, l) == node.name

\* return curr.getAttribute('name') of findBaseTypeFor.
findBaseTypeFor_return(node, l) == l.curr.name

\* findBaseTypeFor(node), part_001: its loop calls this.findTypeDefinition,
\* a method neither that revision nor Library defines, so the first pass
\* raises a TypeError whatever the node is (reading basetype.namespaceURI of
\* a null basetype raises one as well).
findBaseTypeFor_1(its, node) == TypeError

\* xsd.findRestrictingFacets(type): the facet children of its restriction.
xsd_findRestrictingFacets(type) ==
  LET restriction == find(type.children, {"restriction"}, Undefined, 1)
  IN IF restriction = NULL THEN <<>> ELSE restriction.children

\* foundFacetTypes.indexOf(fname) !== -1
Includes(s, x) == \E i \in 1..Len(s) : s[i] = x

\* processFacet that never treats a facet as fixed.
processFacet_neverFixed(st, facet) ==
  LET fname == facet.localName
      isEnum == fname = "enumeration"
      isAlreadyFound == Includes(st.foundFacetTypes, fname)
  IN IF ~isAlreadyFound
     THEN [facets |-> IF isEnum THEN st.facets ELSE Append(st.facets, facet),
           enums |-> IF isEnum THEN Append(st.enums, facet) ELSE st.enums,
           foundFacetTypes |-> IF ~isEnum THEN Append(st.foundFacetTypes, fname)
                               ELSE st.foundFacetTypes]
     ELSE st

\* processFacet(facet) of collectFacets, over the variables it closes over:
\* st = [facets, enums, foundFacetTypes].
processFacet(st, facet) ==
  LET fname == facet.localName
      isEnum == fname = "enumeration"
      isAssertion == fname = "assertion"
      isAlreadyFound == Includes(st.foundFacetTypes, fname)
      isFixed == ~isEnum /\ (isAssertion \/ facet.fixed = "true")
  IN IF ~isAlreadyFound \/ isFixed
     THEN [facets |-> IF isEnum THEN st.facets ELSE Append(st.facets, facet),
           enums |-> IF isEnum THEN Append(st.enums, facet) ELSE st.enums,
           foundFacetTypes |-> IF ~isEnum THEN Append(st.foundFacetTypes, fname)
                               ELSE st.foundFacetTypes]
     ELSE st

\* _(currFacets).each(processFacet)
RECURSIVE eachProcessFacet(_, _)
eachProcessFacet(st, currFacets) ==
  IF currFacets = <<>> THEN st
  ELSE eachProcessFacet(processFacet(st, Head(currFacets)), Tail(currFacets))

\* A pass of collectFacets that does not note 'enumeration' as found.
collectFacets_iteration_enumsNotNoted(its, l) ==
  LET currFacets == xsd_findRestrictingFacets(l.currType)
      st == eachProcessFacet([facets |-> l.facets, enums |-> <<>>,
                              foundFacetTypes |-> l.foundFacetTypes], currFacets)
      hasEnums == Len(st.enums) > 0
  IN [facets |-> IF hasEnums THEN Append(st.facets, st.enums) ELSE st.facets,
      foundFacetTypes |-> st.foundFacetTypes,
      currType |-> findRestrictedType(its, l.currType)]

\* One pass of the while loop of collectFacets over its locals
\* l = [facets, currType, foundFacetTypes].
collectFacets_iteration(its, l) ==
  LET currFacets == xsd_findRestrictingFacets(l.currType)
      st == eachProcessFacet([facets |-> l.facets, enums |-> <<>>,
                              foundFacetTypes |-> l.foundFacetTypes], currFacets)
      hasEnums == Len(st.enums) > 0
  IN [facets |-> IF hasEnums THEN Append(st.facets, st.enums) ELSE st.facets,
      foundFacetTypes |-> IF hasEnums THEN Append(st.foundFacetTypes, "enumeration")
                          ELSE st.foundFacetTypes,
      currType |-> findRestrictedType(its, l.currType)]

\* ------------------------------------------------------ instance documents

InstanceNode(id, localName, xsiType, parentNode) ==
  [id |-> id, namespaceURI |-> NsA, localName |-> localName,
   xsiType |-> xsiType, parentNode |-> parentNode]

\* <root><mid><leaf/></mid></root>, no xsi:type anywhere.
plainRoot == InstanceNode("p.root", "root", NULL, NULL)
plainMid == InstanceNode("p.mid", "mid", NULL, plainRoot)
plainLeaf == InstanceNode("p.leaf", "leaf", NULL, plainMid)
\* The same document with xsi:type="a:AltMid" on mid.
typedRoot == InstanceNode("t.root", "root", NULL, NULL)
typedMid == InstanceNode("t.mid", "mid", QName(NsA, "AltMid"), typedRoot)
typedLeaf == InstanceNode("t.leaf", "leaf", NULL, typedMid)
\* The same document with xsi:type="a:RootType" on root.
rootTypedRoot == InstanceNode("r.root", "root", QName(NsA, "RootType"), NULL)
rootTypedMid == InstanceNode("r.mid", "mid", NULL, rootTypedRoot)
rootTypedLeaf == InstanceNode("r.leaf", "leaf", NULL, rootTypedMid)

InstanceNodes == {plainLeaf, typedLeaf, rootTypedLeaf, plainMid}

\* xsd.getFirstFilteredAncestor(node, filter) with the filter of
\* findElementForXmlNode: the ancestors the filter was shown (nearest
\* first), up to and including the first that carries an xsi:type.
RECURSIVE parentsOf(_)
parentsOf(node) ==
  LET current == node.parentNode
  IN IF current = NULL THEN <<>>
     ELSE IF xsd_getTypeFromNodeAttr(current, "type", XSI) # NULL THEN <<current>>
     ELSE <<current>> \o parentsOf(current)

Reverse(s) == [i \in 1..Len(s) |-> s[Len(s) + 1 - i]]

\* findXsdSubNode(xsdNode, name); reading localName of null, and searching
\* an undefined node, raise a TypeError.
findXsdSubNode(its, xsdNode, name) ==
  IF xsdNode = NULL \/ xsdNode = TypeError THEN TypeError
  ELSE IF xsdNode.localName = "element"
  THEN LET t == findTypeDefinitionFromNodeAttr(its, xsdNode, "type", Undefined)
       IN IF t # NULL THEN xsd_findElement(t, name)
          ELSE IF Len(xsdNode.children) > 0
          THEN xsd_findElement(xsdNode.children[1], name)
          ELSE TypeError
  ELSE xsd_findElement(xsdNode, name)

\* _(parents.reverse()).each(...) of findElementForXmlNode: xsdNode after
\* the remaining parents (outermost first).
RECURSIVE eachParent(_, _, _)
eachParent(its, xsdNode, parents) ==
  IF parents = <<>> \/ xsdNode = TypeError THEN xsdNode
  ELSE eachParent(its,
         IF xsdNode # NULL
         THEN findXsdSubNode(its, xsdNode, Head(parents).localName)
         ELSE findTypeDefinitionFromNodeAttr(its, Head(parents), "type", XSI),
         Tail(parents))

\* findElementForXmlNode(node)
findElementForXmlNode(its, node) ==
  LET parents == parentsOf(node)
      xsdNode == eachParent(its, NULL, Reverse(parents))
  IN findXsdSubNode(its, xsdNode, node.localName)

\* --------------------------------------------------------------- actions

\* The arguments the lookups are called with.
QueryNamespaces == {XS, NsA, Null, "urn:b"}
ElementNames == {"root", "mid"}
TypeNames == {"T", "B", "string"}
SimpleTypes ==
  UNION {{d.children[i] : i \in {j \in 1..Len(d.children) :
                                  d.children[j].localName = "simpleType"}} :
         d \in AllDocs}

NoCall == [op |-> "none", namespace |-> Null, name |-> Null, node |-> NULL]
NoLocal == [none |-> TRUE]

Init ==
  \E defs \in InitialDefs :
    /\ items = init(defs)
    /\ log = [i \in 1..Len(initDefs(defs)) |->
                [def |-> Ref(initDefs(defs)[i]), name |-> Undefined]]
    /\ pc = "idle"
    /\ call = NoCall
    /\ local = NoLocal
    /\ ret = ReturnUndefined

AddItem ==
  /\ pc = "idle"
  /\ Len(log) - 1 < MaxDocs
  /\ \E def \in UserDocs, name \in NsArgs :
       /\ items' = addItem(items, def, name)
       /\ log' = Append(log, [def |-> Ref(def), name |-> name])
       /\ call' = [NoCall EXCEPT !.op = "addItem", !.namespace = name]
  /\ ret' = ReturnUndefined
  /\ UNCHANGED <<pc, local>>

FindElement ==
  /\ pc = "idle"
  /\ \E namespace \in QueryNamespaces, name \in ElementNames :
       /\ call' = [NoCall EXCEPT !.op = "findElement", !.namespace = namespace,
                                 !.name = name]
       /\ ret' = Return(findElement(items, namespace, name))
  /\ UNCHANGED <<items, pc, local, log>>

FindTypeByName ==
  /\ pc = "idle"
  /\ \E namespace \in QueryNamespaces, name \in TypeNames :
       /\ call' = [NoCall EXCEPT !.op = "findTypeByName", !.namespace = namespace,
                                 !.name = name]
       /\ ret' = Return(findTypeByName(items, namespace, name))
  /\ UNCHANGED <<items, pc, local, log>>

FindTypeByName_1 ==
  /\ pc = "idle"
  /\ \E namespace \in QueryNamespaces, name \in TypeNames :
       /\ call' = [NoCall EXCEPT !.op = "findTypeByName_1", !.namespace = namespace,
                                 !.name = name]
       /\ ret' = Return(findTypeByName_1(items, namespace, name))
  /\ UNCHANGED <<items, pc, local, log>>

FindElementForXmlNode ==
  /\ pc = "idle"
  /\ \E node \in InstanceNodes :
       /\ call' = [NoCall EXCEPT !.op = "findElementForXmlNode", !.node = node]
       /\ ret' = Outcome(findElementForXmlNode(items, node))
  /\ UNCHANGED <<items, pc, local, log>>

\* findBaseTypeFor(node) is entered: var curr, base.
FindBaseTypeFor ==
  /\ pc = "idle"
  /\ \E node \in SimpleTypes :
       call' = [NoCall EXCEPT !.op = "findBaseTypeFor", !.node = node]
  /\ pc' = "findBaseTypeFor"
  /\ local' = [curr |-> NULL, base |-> NULL]
  /\ ret' = ReturnUndefined
  /\ UNCHANGED <<items, log>>

\* One pass of its do-while loop; it returns when base is null.
FindBaseTypeForLoop ==
  /\ pc = "findBaseTypeFor"
  /\ LET l == findBaseTypeFor_iteration(items, call.node, local)
     IN IF l.base # NULL
        THEN /\ local' = l
             /\ UNCHANGED <<pc, ret>>
        ELSE /\ local' = NoLocal
             /\ pc' = "idle"
             /\ ret' = ReturnString(findBaseTypeFor_return(call.node, l))
  /\ UNCHANGED <<items, call, log>>

\* findBaseTypeFor(node) of part_001.
FindBaseTypeFor_1 ==
  /\ pc = "idle"
  /\ \E node \in SimpleTypes :
       /\ call' = [NoCall EXCEPT !.op = "findBaseTypeFor_1", !.node = node]
       /\ ret' = Outcome(findBaseTypeFor_1(items, node))
  /\ UNCHANGED <<items, pc, local, log>>

\* collectFacets(simpleType) is entered.
CollectFacets ==
  /\ pc = "idle"
  /\ \E simpleType \in SimpleTypes :
       /\ call' = [NoCall EXCEPT !.op = "collectFacets", !.node = simpleType]
       /\ local' = [facets |-> <<>>, currType |-> simpleType, foundFacetTypes |-> <<>>]
  /\ pc' = "collectFacets"
  /\ ret' = ReturnUndefined
  /\ UNCHANGED <<items, log>>

\* One pass of its while loop; it returns when currType is null.
CollectFacetsLoop ==
  /\ pc = "collectFacets"
  /\ LET l == collectFacets_iteration(items, local)
     IN IF l.currType # NULL
        THEN /\ local' = l
             /\ UNCHANGED <<pc, ret>>
        ELSE /\ local' = NoLocal
             /\ pc' = "idle"
             /\ ret' = ReturnArray(l.facets)
  /\ UNCHANGED <<items, call, log>>

Next ==
  \/ AddItem
  \/ FindElement
  \/ FindTypeByName
  \/ FindTypeByName_1
  \/ FindElementForXmlNode
  \/ FindBaseTypeFor
  \/ FindBaseTypeForLoop
  \/ FindBaseTypeFor_1
  \/ CollectFacets
  \/ CollectFacetsLoop

Spec == Init /\ [][Next]_vars

\* The registrations and the two chain walks alone.
NextWalk ==
  \/ AddItem
  \/ FindBaseTypeFor
  \/ FindBaseTypeForLoop
  \/ CollectFacets
  \/ CollectFacetsLoop

\* A chain walk, once entered, runs on: the loops are synchronous code that
\* nothing interrupts.
FairSpec ==
  Init /\ [][NextWalk]_vars /\ WF_vars(FindBaseTypeForLoop) /\ WF_vars(CollectFacetsLoop)

\* ---------------------------------------------------------------- claims

\* The namespaces a document can be registered under or looked up in.
Namespaces == {XS, NsA, "urn:b"}

\* The namespace a logged registration names: the argument, else the
\* document's declared target namespace.
NamespaceOf(r) == IF r.name = Undefined THEN Doc(r.def).targetNamespace ELSE r.name

\* The documents registered under ns, in call order.
RegisteredUnder(ns) ==
  LET regs == SelectSeq(log, LAMBDA r : NamespaceOf(r) = ns)
  IN [i \in 1..Len(regs) |-> regs[i].def]

TopLevel(d, kinds, n) ==
  {c \in {d.children[i] : i \in 1..Len(d.children)} :
     c.localName \in kinds /\ c.name = n}

\* The definition of kind kinds named n of the earliest document registered
\* under ns that declares one, NULL when none does.
EarliestDeclared(ns, kinds, n) ==
  LET docs == RegisteredUnder(ns)
      declaring == {i \in 1..Len(docs) : TopLevel(Doc(docs[i]), kinds, n) # {}}
  IN IF declaring = {} THEN NULL
     ELSE LET first == CHOOSE i \in declaring : \A j \in declaring : i <= j
          IN CHOOSE c \in TopLevel(Doc(docs[first]), kinds, n) : TRUE

C2_FindElementEarliest ==
  (call.op = "findElement" /\ call.namespace \in Namespaces)
    => ret = Return(EarliestDeclared(call.namespace, {"element"}, call.name))

\* C2 witness: root is looked up in urn:a, which holds two documents that
\* both declare it.
C2_Witness ==
  /\ call.op = "findElement" /\ call.namespace = NsA /\ call.name = "root"
  /\ exists(items, NsA) /\ items[NsA] = <<"a2", "a1">>
  /\ ret # Return(NULL) /\ ret.value.id = "a2.root"

\* C3: the bucket of every namespace is exactly the sequence of documents
\* registered under it, in call order, duplicates kept; a namespace has a
\* bucket exactly when a document was registered under it.
C3_BucketsAreCallOrder ==
  \A ns \in Namespaces :
    /\ getItem(items, ns) = RegisteredUnder(ns)
    /\ exists(items, ns) <=> RegisteredUnder(ns) # <<>>

\* C3 witness: the same document was added twice under one namespace.
C3_Witness ==
  /\ call.op = "addItem"
  /\ exists(items, NsA) /\ items[NsA] = <<"a1", "a1">>

\* C4: the built-in base-type document is the first entry of the bucket of
\* its own namespace in every reachable state.
C4_BaseTypesFirst ==
  /\ exists(items, XS)
  /\ items[XS][1] = Ref(basetypesXsd)

\* C4 witness: user documents were registered under the base-type
\* namespace and a lookup has run since.
C4_Witness ==
  /\ Len(items[XS]) = 3
  /\ call.op = "findTypeByName"

\* The restriction chain of node as findRestrictedType resolves it in the
\* current library: node, its base, the base of that, ... (at most k levels).
RECURSIVE Levels(_, _)
Levels(node, k) ==
  IF node = NULL \/ k = 0 THEN <<>>
  ELSE <<node>> \o Levels(findRestrictedType(items, node), k - 1)

\* More levels than any acyclic chain of the documents has.
ChainDepth == 6

Chain(node) == Levels(node, ChainDepth)
\* node is among its own restriction bases.
RestrictsItself(node) ==
  \E i \in 2..Len(Chain(node)) : Chain(node)[i] = node

Returned(op) == pc = "idle" /\ call.op = op

C6_CyclicChainFails ==
  (pc \in {"findBaseTypeFor", "collectFacets"} /\ RestrictsItself(call.node))
    ~> (pc = "idle" /\ ret = MalformedChainError)

\* The facets a type definition declares, of one kind.
FacetsOf(type, kind) ==
  LET fs == xsd_findRestrictingFacets(type)
  IN {fs[i] : i \in {j \in 1..Len(fs) : fs[j].localName = kind}}

Recorded(f) == \E i \in 1..Len(ret.array) : ret.array[i] = f

AllFacets ==
  UNION {{xsd_findRestrictingFacets(t)[i] : i \in 1..Len(xsd_findRestrictingFacets(t))} :
         t \in SimpleTypes}

\* The enumeration groups of a result, in order.
Groups(result) == SelectSeq(result, LAMBDA e : e \notin AllFacets)

\* The enumeration facets a type definition declares, in document order.
EnumsOf(type) ==
  SelectSeq(xsd_findRestrictingFacets(type), LAMBDA f : f.localName = "enumeration")

LevelsWithEnums(node) == SelectSeq(Chain(node), LAMBDA t : EnumsOf(t) # <<>>)

ThreeDeep(node) ==
  /\ node.parentNode # NULL
  /\ node.parentNode.parentNode # NULL
  /\ node.parentNode.parentNode.parentNode = NULL

\* C9: for an instance element three levels deep, with no xsi:type on its
\* ancestors findElementForXmlNode descends from the definition of the
\* document's root element to the node's name; with an xsi:type on the
\* middle ancestor it descends from that type instead.
C9_DescentFromRootElement ==
  (call.op = "findElementForXmlNode" /\ ThreeDeep(call.node)) =>
    LET mid == call.node.parentNode
        root == mid.parentNode
        rootDef == findElement(items, root.namespaceURI, root.localName)
        midType == findTypeDefinitionFromNodeAttr(items, mid, "type", XSI)
    IN /\ (mid.xsiType = NULL /\ root.xsiType = NULL /\ rootDef # NULL) =>
            ret = Return(findXsdSubNode(items, findXsdSubNode(items, rootDef, mid.localName),
                                        call.node.localName))
       /\ (mid.xsiType # NULL /\ midType # NULL) =>
            ret = Return(findXsdSubNode(items, midType, call.node.localName))

\* C10: a document without a target namespace, registered without a
\* namespace argument, is rejected with InvalidSchemaError and gets no
\* bucket and no entry in the store.
C10_NoNamespaceIsRejected ==
  /\ ~exists(items, Null)
  /\ (call.op = "addItem" /\ NamespaceOf(log[Len(log)]) = Null)
       => ret = InvalidSchemaError

====
